---- MODULE Spec2Model ----
(***************************************************************************)
(* Model of my_assistant/utils/message_queue.py: the MessageQueue mailbox  *)
(* shared by the Negotiation Agent and the CS Simulator.                   *)
(*                                                                         *)
(* Scheduling: senders and waiters are coroutines of one asyncio event     *)
(* loop.  A coroutine runs without interruption between two awaits, so     *)
(* every action below is the code between two suspension points.           *)
(* send_from_agent has no await in its body and send_from_cs is a plain    *)
(* function: each is one step.  A wait suspends only inside                *)
(* asyncio.Event.wait(), which returns at once when the event is set and   *)
(* otherwise parks the caller until Event.set() completes its future; the  *)
(* parked coroutine runs again in a later step of the loop.                *)
(***************************************************************************)
EXTENDS Integers, Sequences, FiniteSets, TLC

\* ------------------------------------------------------------------ bounds
MaxSends == 3                      \* sends made in one behaviour
NumWaiters == 2                    \* coroutines that call the wait methods
MaxQueues == 2                     \* MessageQueue objects made by get_global_queue

Waiters == 1..NumWaiters
Texts == {"", "A"}                 \* message texts handed to the sends

\* Optional[float]: None is the empty sequence, a number t is <<t>>
None == <<>>
Timeouts == {None, <<0>>, <<5>>}

Events == {"agent_message_ready", "cs_response_ready"}

\* threads that run a send while other threads are inside the mailbox
Senders == {"s1", "s2"}
IdleSender == [pc |-> "idle", md |-> <<>>]

\* snapshot before the first call of get_conversation_history
NoSnapshot == [list |-> <<>>, clock |-> -1, lastClear |-> -1]

VARIABLES
    agent_to_cs,            \* deque of message_data, line 32
    cs_to_agent,            \* deque of message_data, line 33
    agent_message_ready,    \* asyncio.Event flag, line 36
    cs_response_ready,      \* asyncio.Event flag, line 37
    conversation_history,   \* list of message_data, line 40
    active,                 \* line 43
    task,                   \* task[w]: where coroutine w stands in its wait
    clock,                  \* number of message_data objects created so far
    calls,                  \* history variable: the sends, in call order
    lastClear,              \* history variable: clock at the last clear_history
    observe,                \* which of the two history variables below are kept
    returned,               \* history variable: per event, what waits returned
    tmoPhase,               \* history variable: per event, progress of the
                            \* scenario "a wait timed out before any message
                            \* arrived for it (1), then one send (2), then a
                            \* wait without timeout (3)"
    soloSince,              \* history variable: per event, the clock at which
                            \* a coroutine parked on the empty channel as the
                            \* only waiter of the event and has been alone
                            \* since; -2 once that wait returned, else -1
    snapshot,               \* the list last returned by
                            \* get_conversation_history, and when
    global_queue,           \* _global_queue, line 161: 0 is None, else the
                            \* position in queues of the instance
    queues,                 \* the MessageQueue objects made by
                            \* get_global_queue, in order of construction
    cli_queue,              \* CSSimulatorCLI.queue: 0 before __init__
    resets,                 \* history variable: calls of reset_global_queue
    sending,                \* sending[s]: where thread s stands in its send
    error,                  \* history variable: error[w] is what the last
                            \* exception raised to coroutine w carries
    cli,                    \* CSSimulatorCLI.run: where the loop stands, what
                            \* it printed last, and (history variable) how
                            \* many customer messages its waits returned
    analysis,               \* outcome of the last analyze_negotiation_progress
    agent_state,            \* the dict of tool_context.get_agent_state()
    tool_result             \* how the last call of the tool
                            \* wait_for_cs_response ended

mailbox == <<agent_to_cs, cs_to_agent, agent_message_ready, cs_response_ready,
             conversation_history, active>>
vars == <<agent_to_cs, cs_to_agent, agent_message_ready, cs_response_ready,
          conversation_history, active, task, clock, calls, lastClear,
          observe, returned, tmoPhase, soloSince, snapshot, global_queue,
          queues, cli_queue, resets, sending, error, cli, analysis,
          agent_state, tool_result>>

\* state that no step of the cooperative mailbox touches
beyond == <<snapshot, global_queue, queues, cli_queue, resets, sending, cli,
            analysis, agent_state, tool_result>>
outside == <<beyond, error>>

\* ----------------------------------------------------------------- helpers
\* Python truth value of the timeout argument (`if timeout:`)
Truthy(timeout) == timeout # None /\ timeout[1] # 0

\* the dict built by a send; timestamp is the creation order of the dict and
\* also stands for the identity of the object shared by deque and history
message_data(message, timestamp, sender) ==
    [text |-> message, timestamp |-> timestamp, sender |-> sender]

\* a coroutine outside a wait: not yet called ("idle"), or its last wait
\* returned a value ("returned") or raised asyncio.TimeoutError ("raised")
Ended(pc) == [pc |-> pc, event |-> "-", timeout |-> None]
InWait(w) == task[w].pc \in {"waiting", "woken"}

\* mutant: the flag is set but the parked coroutines are not woken
EventSet_wakes_nobody(ev, wasSet) == task

\* mutant: one wake-up for both directions
EventSet_wakes_everyone(ev, wasSet) ==
    [w \in Waiters |->
        IF ~wasSet /\ task[w].pc = "waiting"
        THEN [task[w] EXCEPT !.pc = "woken"]
        ELSE task[w]]

\* asyncio.Event.set(): completes the future of every coroutine parked on ev
EventSet(ev, wasSet) ==
    [w \in Waiters |->
        IF ~wasSet /\ task[w].pc = "waiting" /\ task[w].event = ev
        THEN [task[w] EXCEPT !.pc = "woken"]
        ELSE task[w]]

\* what a wait hands back: the text, and the timestamp of the message_data it
\* took from the deque (0 when it took none)
Delivery(text, msg) == [text |-> text, msg |-> msg]

\* "returned" keeps every delivery, "lastReturned" only the latest one
Record(ev, delivery) ==
    IF "returned" \in observe
    THEN [returned EXCEPT ![ev] = Append(@, delivery)]
    ELSE IF "lastReturned" \in observe
         THEN [returned EXCEPT ![ev] = <<delivery>>]
         ELSE returned

Phase(ev, p) ==
    IF "tmoPhase" \in observe THEN [tmoPhase EXCEPT ![ev] = p] ELSE tmoPhase

Solo(ev, since) ==
    IF "soloSince" \in observe THEN [soloSince EXCEPT ![ev] = since]
    ELSE soloSince

\* the value of soloSince[ev] after coroutine w called a wait on ev: w is a
\* lone waiter when it parks, the deque is empty and nobody else waits on ev
SoloAtCall(w, ev, flag, deque) ==
    IF ~flag /\ deque = <<>>
       /\ \A v \in Waiters \ {w} : ~(InWait(v) /\ task[v].event = ev)
    THEN clock ELSE -1

\* ------------------------------------------------------------------- Init
\* MessageQueue.__init__
InitObserving(obs) ==
    /\ agent_to_cs = <<>>
    /\ cs_to_agent = <<>>
    /\ agent_message_ready = FALSE
    /\ cs_response_ready = FALSE
    /\ conversation_history = <<>>
    /\ active = FALSE
    /\ task = [w \in Waiters |-> Ended("idle")]
    /\ clock = 0
    /\ calls = <<>>
    /\ lastClear = 0
    /\ observe = obs
    /\ returned = [ev \in Events |-> <<>>]
    /\ tmoPhase = [ev \in Events |-> 0]
    /\ soloSince = [ev \in Events |-> -1]
    /\ snapshot = NoSnapshot
    /\ global_queue = 0
    /\ queues = <<>>
    /\ cli_queue = 0
    /\ resets = 0
    /\ sending = [s \in Senders |-> IdleSender]
    /\ error = [w \in Waiters |-> <<>>]
    /\ cli = [pc |-> "wait", last |-> "-", received |-> 0]
    /\ analysis = "-"
    /\ agent_state = [key \in {} |-> 0]
    /\ tool_result = [kind |-> "-", text |-> "-", response |-> ""]

Init == InitObserving({})

\* ------------------------------------------------------------------ sends
\* mutant: the message is queued but never logged
send_from_agent_unlogged(message) ==
    /\ clock < MaxSends
    /\ LET md == message_data(message, clock + 1, "negotiation_agent") IN
        /\ agent_to_cs' = Append(agent_to_cs, md)
        /\ agent_message_ready' = TRUE
        /\ task' = EventSet("agent_message_ready", agent_message_ready)
        /\ active' = TRUE
        /\ clock' = clock + 1
        /\ calls' = Append(calls, [text |-> message, by |-> "send_from_agent"])
        /\ tmoPhase' = Phase("agent_message_ready",
                IF tmoPhase["agent_message_ready"] = 1 THEN 2 ELSE 0)
    /\ UNCHANGED <<soloSince, cs_to_agent, cs_response_ready, conversation_history,
                   lastClear, observe, outside, returned>>

send_from_agent(message) ==
    /\ clock < MaxSends
    /\ LET md == message_data(message, clock + 1, "negotiation_agent") IN
        /\ agent_to_cs' = Append(agent_to_cs, md)
        /\ conversation_history' = Append(conversation_history, md)
        /\ agent_message_ready' = TRUE
        /\ task' = EventSet("agent_message_ready", agent_message_ready)
        /\ active' = TRUE
        /\ clock' = clock + 1
        /\ calls' = Append(calls, [text |-> message, by |-> "send_from_agent"])
        /\ tmoPhase' = Phase("agent_message_ready",
                IF tmoPhase["agent_message_ready"] = 1 THEN 2 ELSE 0)
    /\ UNCHANGED <<soloSince, cs_to_agent, cs_response_ready, lastClear, observe, outside,
                   returned>>

\* mutant: the reply is logged with the sender of the other side
send_from_cs_as_agent(message) ==
    /\ clock < MaxSends
    /\ LET md == message_data(message, clock + 1, "cs_simulator")
           logged == message_data(message, clock + 1, "negotiation_agent") IN
        /\ cs_to_agent' = Append(cs_to_agent, md)
        /\ conversation_history' = Append(conversation_history, logged)
        /\ cs_response_ready' = TRUE
        /\ task' = EventSet("cs_response_ready", cs_response_ready)
        /\ clock' = clock + 1
        /\ calls' = Append(calls, [text |-> message, by |-> "send_from_cs"])
        /\ tmoPhase' = Phase("cs_response_ready",
                IF tmoPhase["cs_response_ready"] = 1 THEN 2 ELSE 0)
    /\ UNCHANGED <<soloSince, agent_to_cs, agent_message_ready, active, lastClear,
                   observe, outside, returned>>

\* mutant: a bounded channel, the send waits while it holds two replies
send_from_cs_bounded(message) ==
    /\ clock < MaxSends
    /\ Len(cs_to_agent) < 2
    /\ LET md == message_data(message, clock + 1, "cs_simulator") IN
        /\ cs_to_agent' = Append(cs_to_agent, md)
        /\ conversation_history' = Append(conversation_history, md)
        /\ cs_response_ready' = TRUE
        /\ task' = EventSet("cs_response_ready", cs_response_ready)
        /\ clock' = clock + 1
        /\ calls' = Append(calls, [text |-> message, by |-> "send_from_cs"])
        /\ tmoPhase' = Phase("cs_response_ready",
                IF tmoPhase["cs_response_ready"] = 1 THEN 2 ELSE 0)
    /\ UNCHANGED <<soloSince, agent_to_cs, agent_message_ready, active, lastClear,
                   observe, outside, returned>>

send_from_cs(message) ==
    /\ clock < MaxSends
    /\ LET md == message_data(message, clock + 1, "cs_simulator") IN
        /\ cs_to_agent' = Append(cs_to_agent, md)
        /\ conversation_history' = Append(conversation_history, md)
        /\ cs_response_ready' = TRUE
        /\ task' = EventSet("cs_response_ready", cs_response_ready)
        /\ clock' = clock + 1
        /\ calls' = Append(calls, [text |-> message, by |-> "send_from_cs"])
        /\ tmoPhase' = Phase("cs_response_ready",
                IF tmoPhase["cs_response_ready"] = 1 THEN 2 ELSE 0)
    /\ UNCHANGED <<soloSince, agent_to_cs, agent_message_ready, active, lastClear,
                   observe, outside, returned>>

\* ------------------------------------------------------------------ waits
\* mutant: the reply is read but left in the deque
take_cs_response_peeks(w) ==
    /\ IF cs_to_agent # <<>>
       THEN /\ cs_response_ready' = FALSE
            /\ UNCHANGED cs_to_agent
            /\ returned' = Record("cs_response_ready",
                   Delivery(Head(cs_to_agent).text, Head(cs_to_agent).timestamp))
       ELSE /\ UNCHANGED <<cs_to_agent, cs_response_ready>>
            /\ returned' = Record("cs_response_ready", Delivery("", 0))
    /\ task' = [task EXCEPT ![w] = Ended("returned")]
    /\ UNCHANGED <<agent_to_cs, agent_message_ready, conversation_history,
                   active, clock, calls, lastClear, observe, outside>>

\* mutant: `if message_data["text"]:`, an empty reply counts as no reply
take_cs_response_skips_empty(w) ==
    /\ IF cs_to_agent # <<>> /\ Head(cs_to_agent).text # ""
       THEN /\ cs_to_agent' = Tail(cs_to_agent)
            /\ cs_response_ready' = FALSE
            /\ returned' = Record("cs_response_ready",
                   Delivery(Head(cs_to_agent).text, Head(cs_to_agent).timestamp))
       ELSE /\ UNCHANGED <<cs_to_agent, cs_response_ready>>
            /\ returned' = Record("cs_response_ready", Delivery("", 0))
    /\ task' = [task EXCEPT ![w] = Ended("returned")]
    /\ UNCHANGED <<agent_to_cs, agent_message_ready, conversation_history,
                   active, clock, calls, lastClear, observe, outside>>

\* mutant: the reply is taken but the event is not cleared
take_cs_response_keeps_flag(w) ==
    /\ IF cs_to_agent # <<>>
       THEN /\ cs_to_agent' = Tail(cs_to_agent)
            /\ returned' = Record("cs_response_ready",
                   Delivery(Head(cs_to_agent).text, Head(cs_to_agent).timestamp))
       ELSE /\ UNCHANGED cs_to_agent
            /\ returned' = Record("cs_response_ready", Delivery("", 0))
    /\ task' = [task EXCEPT ![w] = Ended("returned")]
    /\ UNCHANGED <<agent_to_cs, agent_message_ready, cs_response_ready,
                   conversation_history, active, clock, calls, lastClear,
                   observe, outside>>

\* lines 83-88: the code after the await of wait_for_cs_response
take_cs_response(w) ==
    /\ IF cs_to_agent # <<>>
       THEN /\ cs_to_agent' = Tail(cs_to_agent)
            /\ cs_response_ready' = FALSE
            /\ returned' = Record("cs_response_ready",
                   Delivery(Head(cs_to_agent).text, Head(cs_to_agent).timestamp))
       ELSE /\ UNCHANGED <<cs_to_agent, cs_response_ready>>
            /\ returned' = Record("cs_response_ready", Delivery("", 0))
    /\ task' = [task EXCEPT ![w] = Ended("returned")]
    /\ UNCHANGED <<agent_to_cs, agent_message_ready, conversation_history,
                   active, clock, calls, lastClear, observe, outside>>

\* mutant: pop() instead of popleft(): the newest message is taken
take_agent_message_newest(w) ==
    /\ IF agent_to_cs # <<>>
       THEN /\ agent_to_cs' = SubSeq(agent_to_cs, 1, Len(agent_to_cs) - 1)
            /\ agent_message_ready' = FALSE
            /\ returned' = Record("agent_message_ready",
                   Delivery(agent_to_cs[Len(agent_to_cs)].text,
                            agent_to_cs[Len(agent_to_cs)].timestamp))
       ELSE /\ UNCHANGED <<agent_to_cs, agent_message_ready>>
            /\ returned' = Record("agent_message_ready", Delivery("", 0))
    /\ task' = [task EXCEPT ![w] = Ended("returned")]
    /\ UNCHANGED <<cs_to_agent, cs_response_ready, conversation_history,
                   active, clock, calls, lastClear, observe, outside>>

\* mutant: a delivered message is also removed from the history
take_agent_message_forgets(w) ==
    /\ IF agent_to_cs # <<>>
       THEN /\ agent_to_cs' = Tail(agent_to_cs)
            /\ agent_message_ready' = FALSE
            /\ conversation_history' =
                  SelectSeq(conversation_history,
                            LAMBDA md : md # Head(agent_to_cs))
            /\ returned' = Record("agent_message_ready",
                   Delivery(Head(agent_to_cs).text, Head(agent_to_cs).timestamp))
       ELSE /\ UNCHANGED <<agent_to_cs, agent_message_ready,
                           conversation_history>>
            /\ returned' = Record("agent_message_ready", Delivery("", 0))
    /\ task' = [task EXCEPT ![w] = Ended("returned")]
    /\ UNCHANGED <<cs_to_agent, cs_response_ready, active, clock, calls,
                   lastClear, observe, outside>>

\* lines 129-134: the code after the await of wait_for_agent_message
take_agent_message(w) ==
    /\ IF agent_to_cs # <<>>
       THEN /\ agent_to_cs' = Tail(agent_to_cs)
            /\ agent_message_ready' = FALSE
            /\ returned' = Record("agent_message_ready",
                   Delivery(Head(agent_to_cs).text, Head(agent_to_cs).timestamp))
       ELSE /\ UNCHANGED <<agent_to_cs, agent_message_ready>>
            /\ returned' = Record("agent_message_ready", Delivery("", 0))
    /\ task' = [task EXCEPT ![w] = Ended("returned")]
    /\ UNCHANGED <<cs_to_agent, cs_response_ready, conversation_history,
                   active, clock, calls, lastClear, observe, outside>>

\* the await: Event.wait() parks the caller when the event is not set
park(w, ev, timeout) ==
    /\ task' = [task EXCEPT ![w] =
                    [pc |-> "waiting", event |-> ev, timeout |-> timeout]]
    /\ UNCHANGED <<mailbox, clock, calls, lastClear, observe, outside, returned>>

\* a call of wait_for_cs_response(timeout) up to its first suspension
wait_for_cs_response(w, timeout) ==
    /\ ~InWait(w)
    /\ IF cs_response_ready
       THEN take_cs_response(w)
       ELSE park(w, "cs_response_ready", timeout)
    /\ tmoPhase' = Phase("cs_response_ready",
            IF tmoPhase["cs_response_ready"] = 2 /\ timeout = None
            THEN 3 ELSE 0)
    /\ soloSince' = Solo("cs_response_ready",
            SoloAtCall(w, "cs_response_ready", cs_response_ready, cs_to_agent))

\* mutant: the wait is refused while the conversation is not active
wait_for_agent_message_if_active(w, timeout) ==
    /\ active
    /\ ~InWait(w)
    /\ IF agent_message_ready
       THEN take_agent_message(w)
       ELSE park(w, "agent_message_ready", timeout)
    /\ tmoPhase' = Phase("agent_message_ready",
            IF tmoPhase["agent_message_ready"] = 2 /\ timeout = None
            THEN 3 ELSE 0)
    /\ soloSince' = Solo("agent_message_ready",
            SoloAtCall(w, "agent_message_ready", agent_message_ready,
                       agent_to_cs))

\* a call of wait_for_agent_message(timeout) up to its first suspension
wait_for_agent_message(w, timeout) ==
    /\ ~InWait(w)
    /\ IF agent_message_ready
       THEN take_agent_message(w)
       ELSE park(w, "agent_message_ready", timeout)
    /\ tmoPhase' = Phase("agent_message_ready",
            IF tmoPhase["agent_message_ready"] = 2 /\ timeout = None
            THEN 3 ELSE 0)
    /\ soloSince' = Solo("agent_message_ready",
            SoloAtCall(w, "agent_message_ready", agent_message_ready,
                       agent_to_cs))

\* the event loop runs a coroutine whose Event.wait() future was completed
resume(w) ==
    /\ task[w].pc = "woken"
    /\ IF task[w].event = "cs_response_ready"
       THEN take_cs_response(w)
       ELSE take_agent_message(w)
    /\ tmoPhase' = Phase(task[w].event, 0)
    /\ soloSince' = Solo(task[w].event,
            IF soloSince[task[w].event] >= 0 THEN -2 ELSE -1)

\* mutant: both waits raise with the message of wait_for_cs_response
TimeoutError_one_message(ev) == [message |-> "Timeout waiting for CS response"]

\* lines 90, 136: asyncio.TimeoutError("Timeout waiting for ..."); the
\* exception carries its message and nothing else
TimeoutError(ev) ==
    [message |-> IF ev = "cs_response_ready"
                 THEN "Timeout waiting for CS response"
                 ELSE "Timeout waiting for agent message"]

Caught(w, e) ==
    IF "error" \in observe THEN [error EXCEPT ![w] = e] ELSE error

\* mutant: the timer is armed whatever the timeout argument
timed_out_without_timer(w) ==
    /\ InWait(w)
    /\ task' = [task EXCEPT ![w] = Ended("raised")]
    /\ tmoPhase' = Phase(task[w].event, IF task[w].pc = "waiting" THEN 1 ELSE 0)
    /\ soloSince' = Solo(task[w].event, -1)
    /\ error' = Caught(w, TimeoutError(task[w].event))
    /\ UNCHANGED <<mailbox, clock, calls, lastClear, observe, beyond, returned>>

\* mutant: the wait that times out clears the wake flag of its direction
timed_out_clears_flag(w) ==
    /\ InWait(w)
    /\ Truthy(task[w].timeout)
    /\ task' = [task EXCEPT ![w] = Ended("raised")]
    /\ tmoPhase' = Phase(task[w].event, IF task[w].pc = "waiting" THEN 1 ELSE 0)
    /\ soloSince' = Solo(task[w].event, -1)
    /\ IF task[w].event = "agent_message_ready"
       THEN /\ agent_message_ready' = FALSE
            /\ UNCHANGED cs_response_ready
       ELSE /\ cs_response_ready' = FALSE
            /\ UNCHANGED agent_message_ready
    /\ error' = Caught(w, TimeoutError(task[w].event))
    /\ UNCHANGED <<agent_to_cs, cs_to_agent, conversation_history, active,
                   clock, calls, lastClear, observe, beyond, returned>>

\* lines 78-79, 89-90, 124-125, 135-136: asyncio.wait_for cancels the await
\* when the timer it armed fires; the timer exists only on the `if timeout:`
\* branch.  The timer may fire while the coroutine is parked, or after
\* Event.set() completed its future and before the loop ran it again.
timed_out(w) ==
    /\ InWait(w)
    /\ Truthy(task[w].timeout)
    /\ task' = [task EXCEPT ![w] = Ended("raised")]
    /\ tmoPhase' = Phase(task[w].event, IF task[w].pc = "waiting" THEN 1 ELSE 0)
    /\ soloSince' = Solo(task[w].event, -1)
    /\ error' = Caught(w, TimeoutError(task[w].event))
    /\ UNCHANGED <<mailbox, clock, calls, lastClear, observe, beyond, returned>>

\* --------------------------------------------------------- other methods
get_conversation_history == conversation_history

\* mutant: the pending messages are dropped with the history
clear_history_and_channels ==
    /\ conversation_history' = <<>>
    /\ agent_to_cs' = <<>>
    /\ cs_to_agent' = <<>>
    /\ lastClear' = clock
    /\ UNCHANGED <<soloSince, agent_message_ready, cs_response_ready, active,
                   task, clock, calls, observe, outside, returned, tmoPhase>>

clear_history ==
    /\ conversation_history' = <<>>
    /\ lastClear' = clock
    /\ UNCHANGED <<soloSince, agent_to_cs, cs_to_agent, agent_message_ready,
                   cs_response_ready, active, task, clock, calls, observe, outside,
                   returned, tmoPhase>>

is_active == active

end_conversation ==
    /\ active' = FALSE
    /\ UNCHANGED <<soloSince, agent_to_cs, cs_to_agent, agent_message_ready,
                   cs_response_ready, conversation_history, task, clock,
                   calls, lastClear, observe, outside, returned, tmoPhase>>

\* ------------------------------------------------------------------- Next
Next ==
    \/ \E message \in Texts : send_from_agent(message)
    \/ \E message \in Texts : send_from_cs(message)
    \/ \E w \in Waiters, timeout \in Timeouts : wait_for_cs_response(w, timeout)
    \/ \E w \in Waiters, timeout \in Timeouts : wait_for_agent_message(w, timeout)
    \/ \E w \in Waiters : resume(w)
    \/ \E w \in Waiters : timed_out(w)
    \/ clear_history
    \/ end_conversation

\* the mailbox alone
Spec == Init /\ [][Next]_vars

\* the mailbox, keeping what the waits returned
ReturnsSpec == InitObserving({"returned"}) /\ [][Next]_vars

\* the mailbox, keeping what the waits returned and the timeout scenario
ScenarioSpec == InitObserving({"returned", "tmoPhase"}) /\ [][Next]_vars

\* the two channels alone: the sends and the waits, no step that only
\* touches the history or the active flag
ChannelNext ==
    \/ \E message \in Texts : send_from_agent(message)
    \/ \E message \in Texts : send_from_cs(message)
    \/ \E w \in Waiters, timeout \in Timeouts : wait_for_cs_response(w, timeout)
    \/ \E w \in Waiters, timeout \in Timeouts : wait_for_agent_message(w, timeout)
    \/ \E w \in Waiters : resume(w)
    \/ \E w \in Waiters : timed_out(w)

\* the channels, no history variable kept
ChannelSpec == Init /\ [][ChannelNext]_vars

\* the channels, keeping the last value returned and the lone waiters
SoloSpec == InitObserving({"lastReturned", "soloSince"}) /\ [][ChannelNext]_vars

\* the channels, keeping what the waits returned
DeliverySpec == InitObserving({"returned"}) /\ [][ChannelNext]_vars

\* the sends and the waits that arm a timer
TimeoutNext ==
    \/ \E message \in Texts : send_from_agent(message)
    \/ \E message \in Texts : send_from_cs(message)
    \/ \E w \in Waiters : wait_for_cs_response(w, <<5>>)
    \/ \E w \in Waiters : wait_for_agent_message(w, <<5>>)
    \/ \E w \in Waiters : resume(w)
    \/ \E w \in Waiters : timed_out(w)

\* the waits with a timer, keeping what the exceptions they raise carry
ErrorSpec == InitObserving({"error"}) /\ [][TimeoutNext]_vars

\* the event loop runs every ready coroutine and fires every armed timer
FairSpec ==
    /\ Spec
    /\ \A w \in Waiters : WF_vars(resume(w)) /\ WF_vars(timed_out(w))

TypeOK ==
    /\ clock \in 0..MaxSends
    /\ lastClear \in 0..MaxSends
    /\ active \in BOOLEAN
    /\ agent_message_ready \in BOOLEAN
    /\ cs_response_ready \in BOOLEAN
    /\ \A w \in Waiters :
          task[w].pc \in {"idle", "waiting", "woken", "returned", "raised"}
    /\ Len(calls) = clock

\* ===================================================== vocabulary of claims
Channel(ev) == IF ev = "agent_message_ready" THEN agent_to_cs ELSE cs_to_agent
Flag(ev) == IF ev = "agent_message_ready" THEN agent_message_ready
            ELSE cs_response_ready
SendFor(ev) == IF ev = "agent_message_ready" THEN "send_from_agent"
               ELSE "send_from_cs"
SenderOf(by) == IF by = "send_from_agent" THEN "negotiation_agent"
                ELSE "cs_simulator"

\* the positions in calls of the sends whose messages waits on ev receive
SendsOn(ev) == {i \in 1..Len(calls) : calls[i].by = SendFor(ev)}
\* the position in calls of the k-th send on ev
KthSendOn(ev, k) ==
    CHOOSE i \in SendsOn(ev) : Cardinality({j \in SendsOn(ev) : j <= i}) = k
LastSendOn(ev) == KthSendOn(ev, Cardinality(SendsOn(ev)))

Range(seq) == {seq[i] : i \in 1..Len(seq)}
Pending == Range(agent_to_cs) \cup Range(cs_to_agent)

\* coroutine w begins to wait, resp. ends its wait with TimeoutError, in a step
Parks(w) == ~InWait(w) /\ task'[w].pc = "waiting"
Raises(w) == task[w].pc # "raised" /\ task'[w].pc = "raised"

\* ------------------------------------------------------------------- C1
\* C1: FIFO per direction.  On each direction the k-th value returned by a
\* wait is the text of the k-th send, and no wait is left suspended on a
\* direction while a message sent on it has not been returned (the waits
\* need no further send).
C1_FifoPerDirection ==
    \A ev \in Events :
        /\ Len(returned[ev]) <= Cardinality(SendsOn(ev))
        /\ \A k \in 1..Len(returned[ev]) :
              /\ k <= Cardinality(SendsOn(ev))
              /\ returned[ev][k].text = calls[KthSendOn(ev, k)].text
        /\ (\E w \in Waiters : task[w].pc = "waiting" /\ task[w].event = ev)
              => Len(returned[ev]) >= Cardinality(SendsOn(ev))

\* ------------------------------------------------------------------- C2
\* C2: no loss under race.  When exactly one message has been sent with
\* send_from_agent, at most one wait_for_agent_message has returned a value,
\* however many waiters were blocked when it was sent.
C2_OneMessageOneReceiver ==
    Cardinality(SendsOn("agent_message_ready")) = 1
        => Len(returned["agent_message_ready"]) <= 1

\* ------------------------------------------------------------------- C3
\* C3: a wait called on a direction whose channel holds a pending message
\* does not suspend: a coroutine begins to wait only on an empty channel.
C3_PendingMeansNoSuspend ==
    [][\A w \in Waiters : Parks(w) => Channel(task'[w].event) = <<>>]_vars

\* ------------------------------------------------------------------- C4
\* C4: signal-and-recheck.  Every value a wait returns is the text of the
\* message it removed from the head of its channel in the same step; a wait
\* never returns a value without a dequeue.
C4_ReturnImpliesDequeue ==
    [][\A ev \in Events :
          returned'[ev] # returned[ev]
              => /\ Channel(ev) # <<>>
                 /\ Channel(ev)' = Tail(Channel(ev))
                 /\ returned'[ev] = Append(returned[ev],
                        Delivery(Head(Channel(ev)).text,
                                 Head(Channel(ev)).timestamp))]_vars

\* ------------------------------------------------------------------- C5
\* C5: history completeness and order.  As long as only sends, waits and
\* timeouts happened (clear_history was not called after a send),
\* get_conversation_history() has one entry per send, in call order, each
\* with the text and the sender of its send, whatever has been consumed.
C5_HistoryIsTheSends ==
    lastClear = 0 =>
        /\ Len(get_conversation_history) = Len(calls)
        /\ \A i \in 1..Len(calls) :
              /\ get_conversation_history[i].text = calls[i].text
              /\ get_conversation_history[i].sender = SenderOf(calls[i].by)

\* a / agent, b / cs, c / agent were sent, the first was consumed, the second
\* is pending and a wait has timed out
C5_Witness ==
    /\ lastClear = 0
    /\ Len(calls) = 3
    /\ <<calls[1].by, calls[2].by, calls[3].by>> =
          <<"send_from_agent", "send_from_cs", "send_from_agent">>
    /\ Len(agent_to_cs) = 1
    /\ Len(cs_to_agent) = 1
    /\ \E w \in Waiters : task[w].pc = "raised"
    /\ Len(get_conversation_history) = 3

\* ------------------------------------------------------------------- C6
\* C6 as claimed: the length of the history equals the number of sends ever
\* made.
C6_Original == Len(conversation_history) = clock

\* C6 as amended: the history holds exactly the messages sent since the last
\* clear_history (all sends when it was never called), in send order; no
\* other operation removes an entry.
C6_HistorySinceLastClear ==
    /\ Len(conversation_history) = clock - lastClear
    /\ \A i \in 1..Len(conversation_history) :
          conversation_history[i].timestamp = lastClear + i

\* the history was cleared after one send, two sends followed and one of
\* their messages has been delivered
C6_Witness ==
    /\ lastClear = 1
    /\ clock = 3
    /\ Len(conversation_history) = 2
    /\ Len(agent_to_cs) + Len(cs_to_agent) < 3
    /\ \E w \in Waiters : task[w].pc = "returned"

\* ------------------------------------------------------------------- C7
\* C7 as claimed: every pending message appears in the history.
C7_Original == \A md \in Pending : md \in Range(conversation_history)

\* C7 as amended: every pending message that was sent after the last
\* clear_history appears in the history.
C7_PendingSinceLastClearInHistory ==
    \A md \in Pending :
        md.timestamp > lastClear => md \in Range(conversation_history)

\* one pending message is older than the last clear_history, another younger
C7_Witness ==
    /\ \E md \in Pending : md.timestamp <= lastClear
    /\ \E md \in Pending :
          md.timestamp > lastClear /\ md \in Range(conversation_history)

\* ------------------------------------------------------------------- C8
\* C8: timeout non-destructive.  When a wait on a direction timed out, one
\* message was then sent on that direction and a wait without timeout is
\* then called on it, that wait returns the sent message.
C8_TimeoutThenSendThenWait ==
    [][\A ev \in Events :
          tmoPhase[ev] = 2 /\ tmoPhase'[ev] = 3
              => returned'[ev] = Append(returned[ev],
                     Delivery(calls[LastSendOn(ev)].text, LastSendOn(ev)))]_vars

\* ------------------------------------------------------------------- C9
\* C9: a wait that times out changes nothing.  Neither the step in which a
\* wait suspends nor the step in which it ends with TimeoutError changes a
\* channel, a wake flag, the history or the active flag, and the timeout
\* leaves every other coroutine where it was.
C9_TimeoutChangesNothing ==
    [][\A w \in Waiters :
          /\ Parks(w) => UNCHANGED mailbox
          /\ Raises(w) =>
                /\ UNCHANGED mailbox
                /\ \A v \in Waiters \ {w} : task'[v] = task[v]]_vars

\* a wait has timed out while a message was pending on its direction and
\* another coroutine was still suspended
C9_Witness ==
    /\ \E w \in Waiters : task[w].pc = "raised"
    /\ \E v \in Waiters : task[v].pc = "waiting"
    /\ agent_to_cs # <<>>
    /\ cs_to_agent # <<>>

\* ------------------------------------------------------------------ C10
\* C10: a wait called with a timeout value (0 included) does not block for
\* ever: once suspended it leaves the suspension, by the timeout or because
\* a message was sent on its direction.
C10_TimeoutAlwaysSurfaces ==
    \A w \in Waiters :
        (task[w].pc = "waiting" /\ task[w].timeout # None)
            ~> (task[w].pc # "waiting")

\* ------------------------------------------------------------------ C11
\* the position in calls of the first send on ev made after clock c
NextSendAfter(ev, c) ==
    CHOOSE i \in SendsOn(ev) :
        i > c /\ \A j \in SendsOn(ev) : j > c => i <= j

\* C11: a single coroutine parked on an empty channel is woken by the next
\* send on its direction and, when it runs again, returns the text of that
\* message (both directions).
C11_LoneWaiterGetsNextMessage ==
    [][\A ev \in Events :
          soloSince[ev] >= 0 =>
             /\ Len(Channel(ev))' > Len(Channel(ev)) =>
                   \A w \in Waiters :
                       InWait(w) /\ task[w].event = ev => task'[w].pc = "woken"
             /\ soloSince'[ev] = -2 =>
                   returned'[ev] =
                       <<Delivery(calls[NextSendAfter(ev, soloSince[ev])].text,
                                  NextSendAfter(ev, soloSince[ev]))>>]_vars

\* a lone waiter has returned on each direction, on one of them the second
\* message of the direction
C11_Witness ==
    /\ soloSince["agent_message_ready"] = -2
    /\ soloSince["cs_response_ready"] = -2
    /\ \E ev \in Events : returned[ev][1].msg = 3

\* ------------------------------------------------------------------ C12
\* C12: every send, in either direction, leaves is_active() true, and
\* is_active() goes from true to false only in a step that changes nothing
\* else (end_conversation).
C12_EverySendActivates ==
    [][/\ clock' # clock => is_active'
       /\ is_active /\ ~is_active' =>
             UNCHANGED <<agent_to_cs, cs_to_agent, agent_message_ready,
                         cs_response_ready, conversation_history, task>>]_vars

\* ------------------------------------------------------------------ C13
\* C13: the conversation flag is observational.  Whatever the flag, every
\* send can be made and every coroutine outside a wait can call either wait
\* (the flag gates nothing), and the step that resets the flag changes no
\* channel, wake flag, history entry or waiting coroutine.
C13_FlagGatesNothing ==
    /\ [][is_active /\ ~is_active' =>
             UNCHANGED <<agent_to_cs, cs_to_agent, agent_message_ready,
                         cs_response_ready, conversation_history, task>>]_vars
    /\ [](/\ \A message \in Texts :
              clock < MaxSends =>
                 /\ ENABLED send_from_agent(message)
                 /\ ENABLED send_from_cs(message)
          /\ \A w \in Waiters, timeout \in Timeouts :
              ~InWait(w) =>
                 /\ ENABLED wait_for_agent_message(w, timeout)
                 /\ ENABLED wait_for_cs_response(w, timeout))

\* the conversation was ended while a message was pending and a coroutine
\* was suspended, and a send and a wait were made after that
C13_Witness ==
    /\ ~is_active
    /\ Len(agent_to_cs) = 1
    /\ agent_to_cs[1].timestamp = 1
    /\ Len(cs_to_agent) = 1
    /\ cs_to_agent[1].timestamp = 3
    /\ \E w \in Waiters : task[w].pc = "returned"
    /\ \E w \in Waiters : task[w].pc = "waiting"

\* ------------------------------------------------------------------ C14
\* C14: direction independence.  A step that queues a message on one
\* direction changes neither the channel nor the wake flag nor any waiting
\* coroutine of the other direction; and while nothing was sent on a
\* direction its wake flag is clear and every coroutine waiting on it is
\* still parked (it can end only by its timeout), while the history holds
\* exactly the entries sent.
C14_DirectionsIndependent ==
    [][/\ \A ev \in Events : \A other \in Events \ {ev} :
             Len(Channel(ev))' > Len(Channel(ev)) =>
                /\ Channel(other)' = Channel(other)
                /\ Flag(other)' = Flag(other)
                /\ \A w \in Waiters :
                      task[w].event = other => task'[w] = task[w]
       /\ \A ev \in Events :
             (\A i \in 1..Len(calls') : calls'[i].by # SendFor(ev)) =>
                /\ ~Flag(ev)'
                /\ Channel(ev)' = <<>>
                /\ \A w \in Waiters :
                      task'[w].event = ev => task'[w].pc = "waiting"
                /\ lastClear' = 0 => Len(conversation_history') = Len(calls')
      ]_vars

\* "Hello" was sent by the agent, nothing by CS, and a wait_for_cs_response
\* with a timeout has ended with TimeoutError; the history has one entry
C14_Witness ==
    /\ Len(calls) = 1
    /\ calls[1].by = "send_from_agent"
    /\ \E w \in Waiters : task[w].pc = "raised"
    /\ \E w \in Waiters :
          task[w].pc = "waiting" /\ task[w].event = "cs_response_ready"
    /\ Len(get_conversation_history) = 1

\* ------------------------------------------------------------------ C15
\* the messages handed over by the waits on ev, in the order of the returns
\* (a return that took no message from the deque hands over none)
Delivered(ev) == SelectSeq(returned[ev], LAMBDA d : d.msg # 0)

\* C15: delivery order equals send order.  On each direction the messages
\* handed over so far are the first messages sent on it, in send order, with
\* their texts.
C15_DeliveredIsPrefixOfSent ==
    \A ev \in Events :
        /\ Len(Delivered(ev)) <= Cardinality(SendsOn(ev))
        /\ \A k \in 1..Len(Delivered(ev)) :
              /\ Delivered(ev)[k].msg = KthSendOn(ev, k)
              /\ Delivered(ev)[k].text = calls[KthSendOn(ev, k)].text

\* two of three agent messages were delivered, the second one after a wait
\* had returned without a message, and the third is pending
C15_Witness ==
    /\ Len(Delivered("agent_message_ready")) = 2
    /\ Len(returned["agent_message_ready"]) = 3
    /\ returned["agent_message_ready"][2].msg = 0
    /\ Len(agent_to_cs) = 1

\* ------------------------------------------------------------------ C16
\* C16: no duplicated delivery.  No message is handed over by two returns,
\* on the same or on different directions.
C16_NoDuplicateDelivery ==
    \A ev \in Events, other \in Events :
        \A i \in 1..Len(returned[ev]), j \in 1..Len(returned[other]) :
            (returned[ev][i].msg # 0 /\ returned[ev][i].msg = returned[other][j].msg)
                => (ev = other /\ i = j)

\* two coroutines were woken by the one reply sent: both returned, one of
\* them with the message
C16_Witness ==
    /\ Len(calls) = 1
    /\ Len(returned["cs_response_ready"]) = 2
    /\ Len(Delivered("cs_response_ready")) = 1

\* ------------------------------------------------------------------ C17
\* The mailbox entered by OS threads (launch_agents.py starts the agent
\* server in a threading.Thread; the queue is a module global of the
\* process).  No method takes a lock, so a thread may be preempted between
\* any two statements: each statement below is a step of its own.
EventOf(md) == IF md.sender = "negotiation_agent" THEN "agent_message_ready"
               ELSE "cs_response_ready"

\* what the threads leave alone
apart == <<lastClear, observe, returned, tmoPhase, soloSince, snapshot,
           global_queue, queues, cli_queue, resets, error, cli, analysis,
           agent_state, tool_result>>

\* lines 52-57, 99-104: thread s enters a send and builds message_data
thread_message_data(s, by, message) ==
    /\ sending[s].pc = "idle"
    /\ clock < MaxSends
    /\ sending' = [sending EXCEPT ![s] =
            [pc |-> "append", md |-> message_data(message, clock + 1, SenderOf(by))]]
    /\ clock' = clock + 1
    /\ calls' = Append(calls, [text |-> message, by |-> by])
    /\ UNCHANGED <<mailbox, task, apart>>

\* lines 59, 106: self.<deque>.append(message_data)
thread_append(s) ==
    /\ sending[s].pc = "append"
    /\ IF EventOf(sending[s].md) = "agent_message_ready"
       THEN /\ agent_to_cs' = Append(agent_to_cs, sending[s].md)
            /\ UNCHANGED cs_to_agent
       ELSE /\ cs_to_agent' = Append(cs_to_agent, sending[s].md)
            /\ UNCHANGED agent_to_cs
    /\ sending' = [sending EXCEPT ![s].pc = "log"]
    /\ UNCHANGED <<agent_message_ready, cs_response_ready, conversation_history,
                   active, task, clock, calls, apart>>

\* lines 60, 107: self.conversation_history.append(message_data)
thread_log(s) ==
    /\ sending[s].pc = "log"
    /\ conversation_history' = Append(conversation_history, sending[s].md)
    /\ sending' = [sending EXCEPT ![s].pc = "set"]
    /\ UNCHANGED <<agent_to_cs, cs_to_agent, agent_message_ready,
                   cs_response_ready, active, task, clock, calls, apart>>

\* lines 61, 108: self.<event>.set(); send_from_cs ends here
thread_set(s) ==
    /\ sending[s].pc = "set"
    /\ IF EventOf(sending[s].md) = "agent_message_ready"
       THEN /\ agent_message_ready' = TRUE
            /\ task' = EventSet("agent_message_ready", agent_message_ready)
            /\ sending' = [sending EXCEPT ![s].pc = "activate"]
            /\ UNCHANGED cs_response_ready
       ELSE /\ cs_response_ready' = TRUE
            /\ task' = EventSet("cs_response_ready", cs_response_ready)
            /\ sending' = [sending EXCEPT ![s] = IdleSender]
            /\ UNCHANGED agent_message_ready
    /\ UNCHANGED <<agent_to_cs, cs_to_agent, conversation_history, active,
                   clock, calls, apart>>

\* line 62: self.active = True; send_from_agent ends here
thread_activate(s) ==
    /\ sending[s].pc = "activate"
    /\ active' = TRUE
    /\ sending' = [sending EXCEPT ![s] = IdleSender]
    /\ UNCHANGED <<agent_to_cs, cs_to_agent, agent_message_ready,
                   cs_response_ready, conversation_history, task, clock,
                   calls, apart>>

\* lines 81, 127: await self.<event>.wait() without timeout
thread_wait(w, ev) ==
    /\ task[w].pc \in {"idle", "returned", "raised"}
    /\ task' = [task EXCEPT ![w] =
            [pc |-> IF Flag(ev) THEN "woken" ELSE "waiting", event |-> ev,
             timeout |-> None, rest |-> <<>>]]
    /\ UNCHANGED <<mailbox, clock, calls, sending, apart>>

\* lines 83, 129: `if self.<deque>:`; lines 87-88, 133-134: return ""
thread_if(w) ==
    /\ task[w].pc = "woken"
    /\ task' = [task EXCEPT ![w] =
            IF Channel(task[w].event) # <<>>
            THEN [@ EXCEPT !.pc = "popleft"]
            ELSE Ended("returned")]
    /\ UNCHANGED <<mailbox, clock, calls, sending, apart>>

\* lines 84, 130: message_data = self.<deque>.popleft(); IndexError when
\* another thread emptied the deque after the test of line 83
thread_popleft(w) ==
    /\ task[w].pc = "popleft"
    /\ IF Channel(task[w].event) = <<>>
       THEN /\ task' = [task EXCEPT ![w] = Ended("raised")]
            /\ UNCHANGED <<agent_to_cs, cs_to_agent>>
       ELSE /\ task' = [task EXCEPT ![w] =
                   [@ EXCEPT !.pc = "clear", !.rest = Tail(Channel(task[w].event))]]
            /\ IF task[w].event = "agent_message_ready"
               THEN agent_to_cs' = Tail(agent_to_cs) /\ UNCHANGED cs_to_agent
               ELSE cs_to_agent' = Tail(cs_to_agent) /\ UNCHANGED agent_to_cs
    /\ UNCHANGED <<agent_message_ready, cs_response_ready, conversation_history,
                   active, clock, calls, sending, apart>>

\* lines 85-86, 131-132: self.<event>.clear(); return message_data["text"]
thread_clear(w) ==
    /\ task[w].pc = "clear"
    /\ IF task[w].event = "agent_message_ready"
       THEN agent_message_ready' = FALSE /\ UNCHANGED cs_response_ready
       ELSE cs_response_ready' = FALSE /\ UNCHANGED agent_message_ready
    /\ task' = [task EXCEPT ![w] = Ended("returned")]
    /\ UNCHANGED <<agent_to_cs, cs_to_agent, conversation_history, active,
                   clock, calls, sending, apart>>

ThreadNext ==
    \/ \E s \in Senders, by \in {"send_from_agent", "send_from_cs"},
          message \in Texts : thread_message_data(s, by, message)
    \/ \E s \in Senders : thread_append(s)
    \/ \E s \in Senders : thread_log(s)
    \/ \E s \in Senders : thread_set(s)
    \/ \E s \in Senders : thread_activate(s)
    \/ \E w \in Waiters, ev \in Events : thread_wait(w, ev)
    \/ \E w \in Waiters : thread_if(w)
    \/ \E w \in Waiters : thread_popleft(w)
    \/ \E w \in Waiters : thread_clear(w)

\* the methods run by preemptively scheduled threads
ThreadSpec == Init /\ [][ThreadNext]_vars

\* the position of md in the history (0 when it is not there)
LoggedAt(md) ==
    IF md \in Range(conversation_history)
    THEN CHOOSE i \in 1..Len(conversation_history) : conversation_history[i] = md
    ELSE 0

\* the send that queued md has run its set()
SetDone(md) ==
    \A s \in Senders : sending[s].md = md => sending[s].pc \notin {"log", "set"}

\* C17: safety under OS-level parallelism.  With the statements of the sends
\* and of the waits interleaved as steps of different threads, (a) a waiter
\* that clears the wake flag leaves pending only messages that were in the
\* deque when it dequeued, or whose send has not yet run its set(): no
\* message is left pending behind a flag that a concurrent waiter cleared
\* after the message's wake-up; and (b) the messages pending on a direction
\* are in the history in the order they have in the deque.
C17_SectionsAtomicUnderThreads ==
    /\ [][\A w \in Waiters :
             task[w].pc = "clear" /\ task'[w].pc = "returned" =>
                \A md \in Range(Channel(task[w].event)) :
                    md \in Range(task[w].rest) \/ ~SetDone(md)]_vars
    /\ [](\A ev \in Events :
             \A i, j \in 1..Len(Channel(ev)) :
                 (i < j /\ LoggedAt(Channel(ev)[i]) > 0 /\ LoggedAt(Channel(ev)[j]) > 0)
                     => LoggedAt(Channel(ev)[i]) < LoggedAt(Channel(ev)[j]))

\* ------------------------------------------------------------------ C18
\* C18: sends never block and never fail.  In every reachable state each of
\* the two sends can be called with every text and completes in the one
\* step of the call, and that step puts exactly one message_data, with the
\* text of the call, at the end of the channel of its direction and at the
\* end of the history, and leaves the other channel as it was.
C18_SendsAlwaysComplete ==
    /\ [](clock < MaxSends =>
             \A message \in Texts :
                 ENABLED send_from_agent(message) /\ ENABLED send_from_cs(message))
    /\ [][clock' # clock =>
             LET call == calls'[Len(calls')]
                 md == message_data(call.text, clock', SenderOf(call.by))
             IN /\ Len(calls') = Len(calls) + 1
                /\ IF call.by = "send_from_agent"
                   THEN /\ agent_to_cs' = Append(agent_to_cs, md)
                        /\ cs_to_agent' = cs_to_agent
                   ELSE /\ cs_to_agent' = Append(cs_to_agent, md)
                        /\ agent_to_cs' = agent_to_cs
                /\ conversation_history' = Append(conversation_history, md)]_vars

\* three replies were sent while the flag was already set, one coroutine was
\* blocked on the other direction and the conversation was not active
C18_Witness ==
    /\ Len(cs_to_agent) = 3
    /\ cs_response_ready
    /\ ~is_active
    /\ Len(get_conversation_history) = 3
    /\ \E w \in Waiters : task[w].pc = "waiting"

\* ------------------------------------------------------------------ C19
\* The module-level singleton and its users.  A MessageQueue object is a
\* record of its fields; an object is named by its position in queues.
MessageQueue ==
    [agent_to_cs |-> <<>>, cs_to_agent |-> <<>>,
     agent_message_ready |-> FALSE, cs_response_ready |-> FALSE,
     conversation_history |-> <<>>, active |-> FALSE]

\* what the users of the singleton leave alone
single == <<mailbox, task, lastClear, observe, returned, tmoPhase, soloSince,
            snapshot, sending, error, cli, analysis>>

\* mutant: after a reset the object made last is handed out again
get_global_queue_reuses_last ==
    IF global_queue = 0 /\ queues = <<>>
    THEN [queues |-> Append(queues, MessageQueue), global_queue |-> Len(queues) + 1]
    ELSE [queues |-> queues,
          global_queue |-> IF global_queue = 0 THEN Len(queues) ELSE global_queue]

\* mutant: every call constructs a MessageQueue
get_global_queue_always_new ==
    [queues |-> Append(queues, MessageQueue), global_queue |-> Len(queues) + 1]

\* lines 164-174: the objects and _global_queue after the call; the value
\* returned is _global_queue
get_global_queue ==
    IF global_queue = 0
    THEN [queues |-> Append(queues, MessageQueue), global_queue |-> Len(queues) + 1]
    ELSE [queues |-> queues, global_queue |-> global_queue]

\* dict.get(key, default) and d[key] = value on the agent state
get(d, key, default) == IF key \in DOMAIN d THEN d[key] ELSE default
setitem(d, key, value) ==
    [k \in DOMAIN d \cup {key} |-> IF k = key THEN value ELSE d[k]]

\* negotiation_agent.py lines 111-112: the count of a tool, one more
counted(count_key) ==
    setitem(agent_state, count_key, get(agent_state, count_key, 0) + 1)

\* negotiation_agent.py lines 108-120: the count, queue = get_global_queue(),
\* await queue.send_from_agent(message)
send_message_to_cs(message) ==
    /\ clock < MaxSends
    /\ LET got == get_global_queue
           md == message_data(message, clock + 1, "negotiation_agent") IN
        /\ Len(got.queues) <= MaxQueues
        /\ global_queue' = got.global_queue
        /\ queues' = [got.queues EXCEPT ![got.global_queue] =
                [@ EXCEPT !.agent_to_cs = Append(@, md),
                          !.conversation_history = Append(@, md),
                          !.agent_message_ready = TRUE,
                          !.active = TRUE]]
    /\ clock' = clock + 1
    /\ calls' = Append(calls, [text |-> message, by |-> "send_from_agent"])
    /\ agent_state' = counted("messages_sent_to_cs")
    /\ UNCHANGED <<cli_queue, resets, tool_result, single>>

\* how queue.wait_for_cs_response ends: with a value, or with an exception
Returned(value) == [raised |-> "-", value |-> value]
Raised(e) == [raised |-> "TimeoutError", value |-> e.message]

\* mutant: a timeout counts as a response
wait_for_cs_response_try_counts_timeouts(outcome) ==
    IF outcome.raised = "-"
    THEN [agent_state |-> counted("responses_received_from_cs"),
          result |-> [kind |-> "return", text |-> "CS Response",
                      response |-> outcome.value]]
    ELSE [agent_state |-> counted("responses_received_from_cs"),
          result |-> [kind |-> "return", text |-> "Timeout", response |-> ""]]

\* negotiation_agent.py lines 143-153: the try statement around the wait.
\* The count and the text "CS Response: ..." follow a value; the except
\* clause names asyncio.TimeoutError and returns the text "Timeout: ...";
\* any other exception leaves the tool
wait_for_cs_response_try(outcome) ==
    IF outcome.raised = "-"
    THEN [agent_state |-> counted("responses_received_from_cs"),
          result |-> [kind |-> "return", text |-> "CS Response",
                      response |-> outcome.value]]
    ELSE IF outcome.raised = "TimeoutError"
    THEN [agent_state |-> agent_state,
          result |-> [kind |-> "return", text |-> "Timeout", response |-> ""]]
    ELSE [agent_state |-> agent_state,
          result |-> [kind |-> "raise", text |-> outcome.raised, response |-> ""]]

\* negotiation_agent.py lines 138-148: queue = get_global_queue();
\* response = await queue.wait_for_cs_response(timeout), for a call that
\* finds the event of that queue set
tool_wait_for_cs_response ==
    LET got == get_global_queue
        deque == got.queues[got.global_queue].cs_to_agent
        ended == wait_for_cs_response_try(
                    Returned(IF deque # <<>> THEN Head(deque).text ELSE "")) IN
        /\ agent_state' = ended.agent_state
        /\ tool_result' = ended.result
        /\ Len(got.queues) <= MaxQueues
        /\ got.queues[got.global_queue].cs_response_ready
        /\ global_queue' = got.global_queue
        /\ queues' = [got.queues EXCEPT ![got.global_queue] =
                [@ EXCEPT !.cs_to_agent = IF @ # <<>> THEN Tail(@) ELSE @,
                          !.cs_response_ready =
                              IF got.queues[got.global_queue].cs_to_agent # <<>>
                              THEN FALSE ELSE @]]
        /\ UNCHANGED <<cli_queue, resets, clock, calls, single>>

\* negotiation_agent.py lines 138-153 with message_queue.py lines 78-79 and
\* 89-90: a call with a timeout that Python takes as true, on a queue whose
\* event stays clear until the timer fires
tool_wait_for_cs_response_timeout(timeout) ==
    LET got == get_global_queue
        ended == wait_for_cs_response_try(Raised(TimeoutError("cs_response_ready"))) IN
        /\ Truthy(timeout)
        /\ Len(got.queues) <= MaxQueues
        /\ ~got.queues[got.global_queue].cs_response_ready
        /\ global_queue' = got.global_queue
        /\ queues' = got.queues
        /\ agent_state' = ended.agent_state
        /\ tool_result' = ended.result
        /\ UNCHANGED <<cli_queue, resets, clock, calls, single>>

\* cs_simulator_cli.py lines 24-26: self.queue = get_global_queue()
CSSimulatorCLI ==
    /\ cli_queue = 0
    /\ LET got == get_global_queue IN
        /\ Len(got.queues) <= MaxQueues
        /\ global_queue' = got.global_queue
        /\ queues' = got.queues
        /\ cli_queue' = got.global_queue
    /\ UNCHANGED <<resets, clock, calls, agent_state, tool_result, single>>

\* cs_simulator_cli.py lines 74-76: self.queue.send_from_cs(response)
send_cs_response(response) ==
    /\ cli_queue # 0
    /\ clock < MaxSends
    /\ LET md == message_data(response, clock + 1, "cs_simulator") IN
        queues' = [queues EXCEPT ![cli_queue] =
                [@ EXCEPT !.cs_to_agent = Append(@, md),
                          !.conversation_history = Append(@, md),
                          !.cs_response_ready = TRUE]]
    /\ clock' = clock + 1
    /\ calls' = Append(calls, [text |-> response, by |-> "send_from_cs"])
    /\ UNCHANGED <<global_queue, cli_queue, resets, agent_state, tool_result, single>>

\* lines 177-180, called while _global_queue is an object (on None the
\* call changes nothing); one more object can be made after it
reset_global_queue ==
    /\ global_queue # 0
    /\ Len(queues) < MaxQueues
    /\ global_queue' = 0
    /\ resets' = resets + 1
    /\ UNCHANGED <<queues, cli_queue, clock, calls, agent_state, tool_result, single>>

GlobalNext ==
    \/ \E message \in Texts : send_message_to_cs(message)
    \/ tool_wait_for_cs_response
    \/ CSSimulatorCLI
    \/ \E response \in Texts : send_cs_response(response)
    \/ reset_global_queue

\* the process: the agent tools, the CLI and the module functions
GlobalSpec == Init /\ [][GlobalNext]_vars

\* C19 as stated: single shared instance.  All calls of get_global_queue
\* return the same MessageQueue: at most one is ever constructed, and the
\* queue cached by CSSimulatorCLI is the one the tools get.
C19_Original ==
    /\ Len(queues) <= 1
    /\ (cli_queue # 0 /\ global_queue # 0) => cli_queue = global_queue

\* C19 amended: a MessageQueue is constructed only by the first call of
\* get_global_queue and by the first call after each reset_global_queue, so
\* that without a reset the tools and the CLI share one mailbox; after a
\* reset the tools get the newest object while the CLI keeps the one it
\* cached, and the objects made before never change through
\* get_global_queue again.
C19_OneInstancePerReset ==
    /\ Len(queues) <= resets + 1
    /\ global_queue \in {0, Len(queues)}
    /\ cli_queue \in 0..Len(queues)
    /\ resets = 0 =>
          /\ Len(queues) <= 1
          /\ (cli_queue # 0 /\ global_queue # 0) => cli_queue = global_queue

\* after one reset the agent's message is in the second mailbox and the
\* reply of the CLI in the first: two mailboxes with diverging state
C19_Witness ==
    /\ resets = 1
    /\ Len(queues) = 2
    /\ cli_queue = 1
    /\ global_queue = 2
    /\ Len(queues[2].agent_to_cs) = 1
    /\ Len(queues[1].cs_to_agent) = 1
    /\ queues[2].cs_to_agent = <<>>

\* ------------------------------------------------------------------ C20
\* what a caller of get_conversation_history leaves alone
observed == <<task, clock, calls, lastClear, observe, returned, tmoPhase,
              soloSince, global_queue, queues, cli_queue, resets, sending,
              error, cli, analysis, agent_state, tool_result>>

\* mutant: the call hands the list over and starts a new one
call_get_conversation_history_drains ==
    /\ snapshot' = [list |-> get_conversation_history, clock |-> clock,
                    lastClear |-> lastClear]
    /\ conversation_history' = <<>>
    /\ UNCHANGED <<agent_to_cs, cs_to_agent, agent_message_ready,
                   cs_response_ready, active, observed>>

\* lines 138-145: a caller keeps the list returned by
\* get_conversation_history(), a copy of conversation_history
call_get_conversation_history ==
    /\ snapshot' = [list |-> get_conversation_history, clock |-> clock,
                    lastClear |-> lastClear]
    /\ UNCHANGED <<mailbox, observed>>

\* the operations that write the history, a wait of each direction that
\* takes messages from the channels, and the caller
ObserverNext ==
    \/ \E message \in Texts : send_from_agent(message)
    \/ \E message \in Texts : send_from_cs(message)
    \/ \E w \in Waiters : wait_for_cs_response(w, None)
    \/ \E w \in Waiters : wait_for_agent_message(w, None)
    \/ \E w \in Waiters : resume(w)
    \/ clear_history
    \/ call_get_conversation_history

\* the mailbox and a caller of get_conversation_history
ObserverSpec == Init /\ [][ObserverNext]_vars

\* C20: idempotent observation.  A call of get_conversation_history changes
\* no field of the mailbox, and as long as no send and no clear_history
\* follows a call, a further call returns a list equal to the one the call
\* returned.
C20_ObservationIdempotent ==
    /\ [][snapshot' # snapshot =>
             /\ UNCHANGED mailbox
             /\ snapshot'.list = conversation_history']_vars
    /\ []((snapshot.clock = clock /\ snapshot.lastClear = lastClear)
             => get_conversation_history = snapshot.list)

\* the last call returned two entries, one of them still pending, and no
\* send or clear_history followed it
C20_Witness ==
    /\ Len(snapshot.list) = 2
    /\ snapshot.clock = clock
    /\ snapshot.lastClear = lastClear
    /\ Len(agent_to_cs) = 1
    /\ \E w \in Waiters : task[w].pc = "returned"

\* ------------------------------------------------------------------ C21
\* an entry a caller puts into the list it was given
CallerEntry == message_data("A", 0, "caller")

\* mutant: the caller holds the mailbox's own list, its append lands there
caller_append_aliased ==
    /\ snapshot.clock >= 0
    /\ Len(snapshot.list) <= MaxSends
    /\ snapshot' = [snapshot EXCEPT !.list = Append(@, CallerEntry)]
    /\ conversation_history' = Append(conversation_history, CallerEntry)
    /\ UNCHANGED <<agent_to_cs, cs_to_agent, agent_message_ready,
                   cs_response_ready, active, observed>>

\* line 145: the caller holds a copy, a list object of its own; it appends to
\* that list
caller_append ==
    /\ snapshot.clock >= 0
    /\ Len(snapshot.list) <= MaxSends
    /\ snapshot' = [snapshot EXCEPT !.list = Append(@, CallerEntry)]
    /\ UNCHANGED <<mailbox, observed>>

\* line 145: the caller removes the first entry of the copy it holds
caller_remove ==
    /\ snapshot.clock >= 0
    /\ snapshot.list # <<>>
    /\ snapshot' = [snapshot EXCEPT !.list = Tail(@)]
    /\ UNCHANGED <<mailbox, observed>>

\* the operations that write the history, and a caller that keeps and
\* edits the list it was given
SnapshotNext ==
    \/ \E message \in Texts : send_from_agent(message)
    \/ \E message \in Texts : send_from_cs(message)
    \/ clear_history
    \/ call_get_conversation_history
    \/ caller_append
    \/ caller_remove

SnapshotSpec == Init /\ [][SnapshotNext]_vars

\* C21: get_conversation_history returns a snapshot.  A step that changes
\* the mailbox's history (a send, clear_history) leaves the list a caller
\* was given as it is, and a step that changes the caller's list (the
\* caller adds or removes an entry, or calls again) leaves the mailbox's
\* history, and the rest of the mailbox, as it is.
C21_SnapshotIsACopy ==
    [][/\ conversation_history' # conversation_history => snapshot' = snapshot
       /\ snapshot' # snapshot => UNCHANGED mailbox]_vars

\* the caller was given one entry and added one of its own; a send and a
\* clear_history followed: the history is empty, the caller's list is not
C21_Witness ==
    /\ snapshot.clock = 1
    /\ snapshot.list = <<message_data("A", 1, "negotiation_agent"), CallerEntry>>
    /\ clock = 2
    /\ lastClear = 2
    /\ get_conversation_history = <<>>

\* ------------------------------------------------------------------ C22
\* C22: empty text is a valid message.  Both sends accept the empty text;
\* the send queues and logs a message_data with that text and sets the wake
\* flag, as for any text; and a wait that returns while the head of its
\* channel has the empty text takes that message from the channel and
\* returns its text as a delivery, without an error.
C22_EmptyTextIsAMessage ==
    /\ [](clock < MaxSends => ENABLED send_from_agent("") /\ ENABLED send_from_cs(""))
    /\ [][/\ (clock' # clock /\ calls'[clock'].text = "") =>
                LET md == message_data("", clock', SenderOf(calls'[clock'].by)) IN
                  IF calls'[clock'].by = "send_from_agent"
                  THEN /\ agent_to_cs' = Append(agent_to_cs, md)
                       /\ conversation_history' = Append(conversation_history, md)
                       /\ agent_message_ready'
                  ELSE /\ cs_to_agent' = Append(cs_to_agent, md)
                       /\ conversation_history' = Append(conversation_history, md)
                       /\ cs_response_ready'
          /\ \A ev \in Events :
                (/\ Len(returned'[ev]) > Len(returned[ev])
                 /\ Channel(ev) # <<>>
                 /\ Head(Channel(ev)).text = "") =>
                    /\ returned'[ev][Len(returned'[ev])] =
                           Delivery("", Head(Channel(ev)).timestamp)
                    /\ Channel(ev)' = Tail(Channel(ev))
                    /\ \A w \in Waiters : ~Raises(w)]_vars

\* an empty reply and an empty agent message were sent and each was
\* returned by a wait as the message it took
C22_Witness ==
    /\ \E k \in 1..MaxSends : returned["cs_response_ready"] = <<Delivery("", k)>>
    /\ \E k \in 1..MaxSends : returned["agent_message_ready"] = <<Delivery("", k)>>
    /\ Len(get_conversation_history) = 2

\* ------------------------------------------------------------------ C23
\* the direction the message of a timeout names
DirectionNamed(message) ==
    IF message = "Timeout waiting for CS response" THEN "cs_response_ready"
    ELSE IF message = "Timeout waiting for agent message" THEN "agent_message_ready"
    ELSE "-"

\* C23 as stated: the timeout outcome of a wait carries the timeout that was
\* requested and the direction that was waited on.
C23_Original ==
    [][\A w \in Waiters :
          Raises(w) =>
             /\ "timeout" \in DOMAIN error'[w]
             /\ error'[w].timeout = task[w].timeout
             /\ "message" \in DOMAIN error'[w]
             /\ DirectionNamed(error'[w].message) = task[w].event]_vars

\* C23 amended: the timeout outcome of a wait is an asyncio.TimeoutError
\* that carries a message and nothing else; the message names the direction
\* that was waited on.
C23_TimeoutNamesDirectionOnly ==
    [][\A w \in Waiters :
          Raises(w) =>
             /\ DOMAIN error'[w] = {"message"}
             /\ DirectionNamed(error'[w].message) = task[w].event]_vars

\* a wait of each direction has timed out
C23_Witness ==
    /\ task[1].pc = "raised"
    /\ task[2].pc = "raised"
    /\ DirectionNamed(error[1].message) = "agent_message_ready"
    /\ DirectionNamed(error[2].message) = "cs_response_ready"

\* ------------------------------------------------------------------ C24
\* The CS simulator loop (cs_simulator_cli.py) and the analysis tool
\* (negotiation_agent.py) on the shared MessageQueue objects.

\* lines typed at the reply prompt
Inputs == {"/quit", "/QUIT", "/history", "", " ", "A"}

\* str.strip() and str.lower() on the lines of Inputs
strip(line) == IF line = " " THEN "" ELSE line
lower(line) == IF line = "/QUIT" THEN "/quit" ELSE line

\* what the users of the simulator leave alone
unseen == <<mailbox, task, lastClear, observe, returned, tmoPhase, soloSince,
            snapshot, sending, error, agent_state, tool_result>>

\* entry[key] of a dict: every key read must be a key of the entry
Readable(entry, keys) == keys \subseteq DOMAIN entry

\* cs_simulator_cli.py lines 57-60: the keys display_history reads
display_history_keys == {"role", "message", "timestamp"}

\* cs_simulator_cli.py lines 44-64: what display_history does with a history
display_history(history) ==
    IF history = <<>> THEN "no history"
    ELSE IF \A i \in 1..Len(history) : Readable(history[i], display_history_keys)
         THEN "history"
         ELSE "KeyError"

\* cs_simulator_cli.py lines 66-72 and 86-97, message_queue.py lines 129-134:
\* wait_for_agent_message(timeout=300.0) returns; the loop shows the
\* customer message and goes to the reply prompt
cli_customer_message ==
    /\ cli_queue # 0
    /\ cli.pc = "wait"
    /\ queues[cli_queue].agent_message_ready
    /\ queues' = [queues EXCEPT ![cli_queue] =
            IF @.agent_to_cs # <<>>
            THEN [@ EXCEPT !.agent_to_cs = Tail(@), !.agent_message_ready = FALSE]
            ELSE @]
    /\ cli' = [pc |-> "prompt", last |-> "customer", received |-> cli.received + 1]
    /\ UNCHANGED <<global_queue, cli_queue, resets, clock, calls, analysis, unseen>>

\* cs_simulator_cli.py lines 71-72 and 89-91: the wait timed out, the loop
\* prints "[Timeout] ..." and waits again
cli_timeout ==
    /\ cli_queue # 0
    /\ cli.pc = "wait"
    /\ ~queues[cli_queue].agent_message_ready
    /\ cli' = [cli EXCEPT !.last = "timeout"]
    /\ UNCHANGED <<queues, global_queue, cli_queue, resets, clock, calls,
                   analysis, unseen>>

\* mutant: no break after the send, the loop stays at the reply prompt
cli_input_no_break(line) ==
    /\ cli_queue # 0
    /\ cli.pc = "prompt"
    /\ LET cs_response == strip(line) IN
        IF lower(cs_response) = "/quit"
        THEN /\ cli' = [cli EXCEPT !.pc = "ended", !.last = "quit"]
             /\ UNCHANGED <<queues, clock, calls>>
        ELSE IF lower(cs_response) = "/history"
        THEN /\ LET shown == display_history(queues[cli_queue].conversation_history) IN
                  cli' = [cli EXCEPT !.last = shown,
                                     !.pc = IF shown = "KeyError" THEN "ended" ELSE @]
             /\ UNCHANGED <<queues, clock, calls>>
        ELSE IF cs_response = ""
        THEN /\ cli' = [cli EXCEPT !.last = "rejected"]
             /\ UNCHANGED <<queues, clock, calls>>
        ELSE /\ clock < MaxSends
             /\ LET md == message_data(cs_response, clock + 1, "cs_simulator") IN
                  queues' = [queues EXCEPT ![cli_queue] =
                      [@ EXCEPT !.cs_to_agent = Append(@, md),
                                !.conversation_history = Append(@, md),
                                !.cs_response_ready = TRUE]]
             /\ clock' = clock + 1
             /\ calls' = Append(calls, [text |-> cs_response, by |-> "send_from_cs"])
             /\ cli' = [cli EXCEPT !.last = "sent"]
    /\ UNCHANGED <<global_queue, cli_queue, resets, analysis, unseen>>

\* cs_simulator_cli.py lines 99-124 and 129-134: one line read at the prompt
cli_input(line) ==
    /\ cli_queue # 0
    /\ cli.pc = "prompt"
    /\ LET cs_response == strip(line) IN
        IF lower(cs_response) = "/quit"
        THEN /\ cli' = [cli EXCEPT !.pc = "ended", !.last = "quit"]
             /\ UNCHANGED <<queues, clock, calls>>
        ELSE IF lower(cs_response) = "/history"
        THEN /\ LET shown == display_history(queues[cli_queue].conversation_history) IN
                  cli' = [cli EXCEPT !.last = shown,
                                     !.pc = IF shown = "KeyError" THEN "ended" ELSE @]
             /\ UNCHANGED <<queues, clock, calls>>
        ELSE IF cs_response = ""
        THEN /\ cli' = [cli EXCEPT !.last = "rejected"]
             /\ UNCHANGED <<queues, clock, calls>>
        ELSE /\ clock < MaxSends
             /\ LET md == message_data(cs_response, clock + 1, "cs_simulator") IN
                  queues' = [queues EXCEPT ![cli_queue] =
                      [@ EXCEPT !.cs_to_agent = Append(@, md),
                                !.conversation_history = Append(@, md),
                                !.cs_response_ready = TRUE]]
             /\ clock' = clock + 1
             /\ calls' = Append(calls, [text |-> cs_response, by |-> "send_from_cs"])
             /\ cli' = [cli EXCEPT !.pc = "wait", !.last = "sent"]
    /\ UNCHANGED <<global_queue, cli_queue, resets, analysis, unseen>>

\* negotiation_agent.py lines 171-205: the keys read are h['role'] (lines
\* 189-190) and entry['role'], entry['message'] (lines 201-202)
analyze_negotiation_progress ==
    /\ LET got == get_global_queue
           history == got.queues[got.global_queue].conversation_history IN
        /\ Len(got.queues) <= MaxQueues
        /\ global_queue' = got.global_queue
        /\ queues' = got.queues
        /\ analysis' =
              IF history = <<>> THEN "No conversation history yet"
              ELSE IF \A i \in 1..Len(history) : Readable(history[i], {"role", "message"})
                   THEN "Negotiation Progress Analysis"
                   ELSE "KeyError"
    /\ UNCHANGED <<cli_queue, resets, clock, calls, cli, unseen>>

CliNext ==
    \/ CSSimulatorCLI
    \/ \E message \in Texts : send_message_to_cs(message)
    \/ tool_wait_for_cs_response
    \/ cli_customer_message
    \/ cli_timeout
    \/ \E line \in Inputs : cli_input(line)
    \/ analyze_negotiation_progress

\* the simulator, the agent's tools and the shared queue
CliSpec == Init /\ [][CliNext]_vars

\* C24: /history and analyze_negotiation_progress on a non-empty history.
\* The line /history typed at the prompt while the history is non-empty
\* renders the entries without error, sends nothing and leaves the loop at
\* the prompt; and analyze_negotiation_progress called on a non-empty
\* history returns its analysis.
C24_HistoryCommandRenders ==
    [][/\ (/\ cli.pc = "prompt"
           /\ queues[cli_queue].conversation_history # <<>>
           /\ cli' # cli
           /\ cli'.last \notin {"quit", "rejected", "sent"}) =>
              /\ cli'.last = "history"
              /\ cli'.pc = "prompt"
              /\ UNCHANGED <<queues, clock>>
       /\ (/\ analysis' # analysis
           /\ queues'[global_queue'].conversation_history # <<>>) =>
              analysis' = "Negotiation Progress Analysis"]_vars

\* ------------------------------------------------------------------ C25
\* C25: under cooperative scheduling a wake flag that is set has a message
\* behind it: in every reachable state, for each direction, if the event of
\* the direction is set then its deque is not empty.
C25_FlagSetMeansPending ==
    \A ev \in Events : Flag(ev) => Channel(ev) # <<>>

\* a reply was taken, which cleared the event, and two more were sent: the
\* event is set again with two replies pending
C25_Witness ==
    /\ cs_response_ready
    /\ Len(cs_to_agent) = 2
    /\ cs_to_agent[1].timestamp = 2
    /\ \E w \in Waiters : task[w].pc = "returned"

\* ------------------------------------------------------------------ C26
\* the timestamps of the history entries written by the sender of ev
LoggedOn(ev) ==
    LET mine == SelectSeq(conversation_history,
                          LAMBDA md : md.sender = SenderOf(SendFor(ev)))
    IN [i \in 1..Len(mine) |-> mine[i].timestamp]

\* C26: sends = delivered + pending.  While clear_history is not called, in
\* every reachable state and for each direction, the history entries of the
\* direction's sender, in history order, are the messages the waits have
\* taken on that direction, in the order taken, followed by the messages in
\* its deque; and they are the sends made on the direction.
C26_HistoryIsDeliveredThenPending ==
    \A ev \in Events :
        /\ LoggedOn(ev) =
              [i \in 1..Len(Delivered(ev)) |-> Delivered(ev)[i].msg]
              \o [i \in 1..Len(Channel(ev)) |-> Channel(ev)[i].timestamp]
        /\ Len(LoggedOn(ev)) = Cardinality(SendsOn(ev))
        /\ \A i \in 1..Len(Delivered(ev)) :
              Delivered(ev)[i].text = calls[Delivered(ev)[i].msg].text

\* of three agent messages one was taken by a wait and two are pending
C26_Witness ==
    /\ Len(Delivered("agent_message_ready")) = 1
    /\ Len(agent_to_cs) = 2
    /\ Len(LoggedOn("agent_message_ready")) = 3

\* ------------------------------------------------------------------ C27
\* Request and reply in strict alternation: one coroutine waits on each
\* direction (the simulator loop on the agent's messages, the agent's tool
\* on the replies), and a send is made on a direction only when the message
\* of the previous send on it has been taken by a wait.
WaiterOf(ev) == IF ev = "agent_message_ready" THEN 1 ELSE 2

AlternationNext ==
    \/ \E message \in Texts : agent_to_cs = <<>> /\ send_from_agent(message)
    \/ \E message \in Texts : cs_to_agent = <<>> /\ send_from_cs(message)
    \/ \E timeout \in Timeouts :
          wait_for_agent_message(WaiterOf("agent_message_ready"), timeout)
    \/ \E timeout \in Timeouts :
          wait_for_cs_response(WaiterOf("cs_response_ready"), timeout)
    \/ \E w \in Waiters : resume(w)
    \/ \E w \in Waiters : timed_out(w)

\* the event loop runs every ready coroutine, and each of the two loops
\* calls its wait again whenever it is not in one
AlternationSpec ==
    /\ InitObserving({"returned"})
    /\ [][AlternationNext]_vars
    /\ \A w \in Waiters : WF_vars(resume(w))
    /\ WF_vars(\E timeout \in Timeouts :
                  wait_for_agent_message(WaiterOf("agent_message_ready"), timeout))
    /\ WF_vars(\E timeout \in Timeouts :
                  wait_for_cs_response(WaiterOf("cs_response_ready"), timeout))

\* C27: request-reply liveness.  With one waiter per direction and sends in
\* strict alternation with the waits, every message sent is eventually
\* returned by a wait, and no deque stays non-empty forever.
C27_AlternationDelivers ==
    /\ \A k \in 1..MaxSends :
          (clock >= k) ~> (\E ev \in Events : \E i \in 1..Len(returned[ev]) :
                              returned[ev][i].msg = k)
    /\ \A ev \in Events : (Channel(ev) # <<>>) ~> (Channel(ev) = <<>>)

\* two requests and one reply were sent and each was returned by a wait
C27_Witness ==
    /\ clock = 3
    /\ Len(Delivered("agent_message_ready")) = 2
    /\ Len(Delivered("cs_response_ready")) = 1
    /\ Pending = {}

\* ------------------------------------------------------------------ C28
\* C28: a wait without timeout never times out.  A coroutine that called a
\* wait with timeout None never ends it with TimeoutError, and while it is
\* suspended the only step that changes its state is a send on its
\* direction, which sets the event and wakes it.
C28_NoTimeoutWithoutTimer ==
    [][\A w \in Waiters :
          (InWait(w) /\ task[w].timeout = None) =>
             /\ ~Raises(w)
             /\ (task[w].pc = "waiting" /\ task'[w] # task[w]) =>
                   /\ task'[w] = [task[w] EXCEPT !.pc = "woken"]
                   /\ Flag(task[w].event)'
                   /\ Len(Channel(task[w].event))' = Len(Channel(task[w].event)) + 1]_vars

\* a coroutine that waits without timeout was woken by a send after another
\* coroutine had timed out
C28_Witness ==
    /\ \E w \in Waiters : task[w].pc = "woken" /\ task[w].timeout = None
    /\ \E w \in Waiters : task[w].pc = "raised"

\* ------------------------------------------------------------------ C29
\* the sends, the waits without timeout, and clear_history
ClearNext ==
    \/ \E message \in Texts : send_from_agent(message)
    \/ \E message \in Texts : send_from_cs(message)
    \/ \E w \in Waiters : wait_for_cs_response(w, None)
    \/ \E w \in Waiters : wait_for_agent_message(w, None)
    \/ \E w \in Waiters : resume(w)
    \/ clear_history

\* the mailbox with clear_history, keeping the last value each wait returned
ClearSpec == InitObserving({"lastReturned"}) /\ [][ClearNext]_vars

C30_AtMostOneReplyPerMessage ==
    /\ [](/\ Cardinality(SendsOn("cs_response_ready")) <= cli.received
          /\ \A i \in SendsOn("cs_response_ready") :
                /\ calls[i].text # ""
                /\ strip(calls[i].text) = calls[i].text
                /\ lower(calls[i].text) \notin {"/quit", "/history"})
    /\ [][/\ Cardinality(SendsOn("cs_response_ready"))' >
                Cardinality(SendsOn("cs_response_ready")) =>
                   /\ cli.pc = "prompt"
                   /\ cli'.pc = "wait"
                   /\ cli'.received = cli.received
          /\ (cli.pc = "wait" /\ cli' # cli /\ cli'.last = "timeout") =>
                   /\ cli'.pc = "wait"
                   /\ UNCHANGED <<queues, clock, calls>>]_vars

\* two customer messages were shown, the first was answered, and at the
\* second prompt an empty line was rejected
C30_Witness ==
    /\ cli.received = 2
    /\ Cardinality(SendsOn("cs_response_ready")) = 1
    /\ cli.pc = "prompt"
    /\ cli.last = "rejected"

\* ------------------------------------------------------------------ C31
\* C31: a fresh mailbox after reset_global_queue.  While _global_queue is
\* None, get_global_queue returns a new MessageQueue with empty deques,
\* empty history, cleared events and active false, and leaves the objects
\* made before as they are; and no step made through the current instance
\* changes an earlier object: the deque and event of the agent's messages
\* and the active flag of an earlier object never change, so a coroutine
\* blocked on it is not woken, and an earlier object changes at all only
\* through the simulator that cached it.
C31_FreshQueueAfterReset ==
    /\ [](global_queue = 0 =>
             LET got == get_global_queue IN
                /\ got.global_queue = Len(queues) + 1
                /\ got.queues[got.global_queue] = MessageQueue
                /\ SubSeq(got.queues, 1, Len(queues)) = queues)
    /\ [][\A i \in 1..Len(queues) :
             i # global_queue' =>
                /\ queues'[i].agent_to_cs = queues[i].agent_to_cs
                /\ queues'[i].agent_message_ready = queues[i].agent_message_ready
                /\ queues'[i].active = queues[i].active
                /\ i # cli_queue => queues'[i] = queues[i]]_vars

\* after a reset two messages were sent through the new instance; the
\* first object, cached by the simulator, is as it was constructed
C31_Witness ==
    /\ resets = 1
    /\ global_queue = 2
    /\ cli_queue = 1
    /\ queues[1] = MessageQueue
    /\ Len(queues[2].agent_to_cs) = 2
    /\ queues[2].agent_message_ready

\* ------------------------------------------------------------------ C32
ToolNext ==
    \/ \E message \in Texts : send_message_to_cs(message)
    \/ tool_wait_for_cs_response
    \/ \E timeout \in Timeouts : tool_wait_for_cs_response_timeout(timeout)
    \/ CSSimulatorCLI
    \/ \E response \in Texts : send_cs_response(response)
    \/ reset_global_queue

\* the negotiation tools with their agent state, the simulator's sends and
\* the module functions
ToolSpec == Init /\ [][ToolNext]_vars

\* the two counts of the negotiation tools, as agent_state.get(key, 0)
messages_sent == get(agent_state, "messages_sent_to_cs", 0)
responses_received == get(agent_state, "responses_received_from_cs", 0)

\* a step in which a wait of the tool took a reply from a queue
TookReply ==
    \E i \in 1..Len(queues) :
        Len(queues'[i].cs_to_agent) < Len(queues[i].cs_to_agent)

\* C32: the counts of the negotiation tools.  The tool wait_for_cs_response
\* never ends with an exception.  A call that times out returns the
\* "Timeout" text and leaves responses_received_from_cs as it was; a call
\* that returns a reply returns the "CS Response" text with that reply and
\* adds exactly one to responses_received_from_cs, and nothing else changes
\* that count.  Every send_message_to_cs adds exactly one to
\* messages_sent_to_cs and nothing else changes it, so that the count is the
\* number of sends from the agent made through the tool.
C32_ToolCounts ==
    /\ [](tool_result.kind # "raise")
    /\ [](messages_sent = Cardinality(SendsOn("agent_message_ready")))
    /\ [][/\ responses_received' \in {responses_received, responses_received + 1}
          /\ TookReply <=> responses_received' = responses_received + 1
          /\ TookReply =>
                \E i \in 1..Len(queues) :
                    /\ queues[i].cs_to_agent # <<>>
                    /\ queues'[i].cs_to_agent = Tail(queues[i].cs_to_agent)
                    /\ tool_result' = [kind |-> "return", text |-> "CS Response",
                                       response |-> Head(queues[i].cs_to_agent).text]
          /\ (tool_result' # tool_result /\ ~TookReply) =>
                /\ tool_result' = [kind |-> "return", text |-> "Timeout",
                                   response |-> ""]
                /\ agent_state' = agent_state
                /\ clock' = clock
          /\ messages_sent' \in {messages_sent, messages_sent + 1}
          /\ messages_sent' = messages_sent + 1 <=>
                /\ Len(calls') = Len(calls) + 1
                /\ calls'[Len(calls')].by = "send_from_agent"]_vars

\* two messages were sent through the tool, one reply was received and the
\* last wait of the tool timed out
C32_Witness ==
    /\ messages_sent = 2
    /\ responses_received = 1
    /\ tool_result.text = "Timeout"
    /\ tool_result.kind = "return"
====
